---- MODULE Spec2Model ----
(***************************************************************************)
(* Model of wrap_gpu_call (dreambooth/utils.py): the function f it returns *)
(* runs a job between status.begin() and status.end(), turns an Exception  *)
(* into a failure result and resets the shared status.                     *)
(*                                                                         *)
(* Python values are records [t, s, n, e]: t is the type, s the characters *)
(* of a str (a sequence of one-character strings), n the value of an int,  *)
(* e the elements of a list or tuple.                                      *)
(***************************************************************************)
EXTENDS Integers, Sequences, FiniteSets, TLC

VARIABLES
    extra_outputs,        \* the template object given to wrap_gpu_call
    extra_outputs0,       \* its contents when wrap_gpu_call was called
    status,               \* the shared status object (db_shared.status)
    pc,                   \* position of the current invocation of f
    args_len,             \* len(str(args)) of the current invocation
    kwargs_len,           \* len(str(kwargs)) of the current invocation
    extra_outputs_array,  \* f's keyword argument / local variable
    eoa_ref,              \* the object extra_outputs_array refers to
    job_res,              \* what func returned (NoVal before it returns)
    e,                    \* the exception in flight or caught
    res,                  \* f's local res
    stderr,               \* what this invocation wrote to sys.stderr
    events,               \* begin / job / end / built / reset, in order
    prev,                 \* how the previous invocation of f ended
    twin,                 \* status of a second run making the same two calls
                          \* in the other order
    pending               \* the two calls of an ordered pair still to finish

vars == <<extra_outputs, extra_outputs0, status, pc, args_len, kwargs_len,
          extra_outputs_array, eoa_ref, job_res, e, res, stderr, events,
          prev, twin, pending>>

----------------------------------------------------------------------------
(* Bounds of the model *)

\* longest exception message, in characters
MaxMsgLen == 1
\* how far beyond the cap the longest argument dump goes
MaxOver == 1
\* longest extra-outputs template
MaxTemplateLen == 2

----------------------------------------------------------------------------
(* Python values *)

PyNone == [t |-> "None", s |-> <<>>, n |-> 0, e |-> <<>>]
PyStr(chars) == [t |-> "str", s |-> chars, n |-> 0, e |-> <<>>]
PyInt(i) == [t |-> "int", s |-> <<>>, n |-> i, e |-> <<>>]
PyList(elems) == [t |-> "list", s |-> <<>>, n |-> 0, e |-> elems]
PyTuple(elems) == [t |-> "tuple", s |-> <<>>, n |-> 0, e |-> elems]

\* no value yet (an unbound local)
NoVal == [t |-> "unbound", s |-> <<>>, n |-> 0, e |-> <<>>]

\* no exception
NoExc == [kind |-> "none", msg |-> <<>>]

----------------------------------------------------------------------------
(* Strings: html.escape and the error element *)

\* the characters an exception message is drawn from
Alphabet == {"a", "&", "<", ">", "\"", "'"}

RECURSIVE SeqsUpTo(_, _)
SeqsUpTo(S, n) ==
    IF n = 0 THEN {<<>>}
    ELSE LET shorter == SeqsUpTo(S, n - 1)
         IN  shorter \cup {Append(x, c) : x \in shorter, c \in S}

Messages == SeqsUpTo(Alphabet, MaxMsgLen)

\* str.replace(old, new) for a one-character old
RECURSIVE replace(_, _, _)
replace(str, old, new) ==
    IF str = <<>> THEN <<>>
    ELSE (IF Head(str) = old THEN new ELSE <<Head(str)>>)
         \o replace(Tail(str), old, new)

\* a plausible slip: the text is inserted unescaped
html_escape_none(str) == str

\* html.escape(s, quote=True): "&" first, then "<", ">", '"', "'"
html_escape(str) ==
    LET s1 == replace(str, "&", <<"&", "a", "m", "p", ";">>)
        s2 == replace(s1, "<", <<"&", "l", "t", ";">>)
        s3 == replace(s2, ">", <<"&", "g", "t", ";">>)
        s4 == replace(s3, "\"", <<"&", "q", "u", "o", "t", ";">>)
    IN  replace(s4, "'", <<"&", "#", "x", "2", "7", ";">>)

\* exception classes a job raises; KeyboardInterrupt derives from
\* BaseException only, TypeError is what list concatenation raises
ExcKinds == {"ValueError", "KeyboardInterrupt"}

\* isinstance(e, Exception)
IsException(kind) == kind \in {"ValueError", "TypeError"}

\* type(e).__name__
type_name(kind) ==
    CASE kind = "ValueError" -> <<"V", "a", "l", "u", "e", "E", "r", "r", "o", "r">>
      [] kind = "TypeError" -> <<"T", "y", "p", "e", "E", "r", "r", "o", "r">>
      [] kind = "KeyboardInterrupt" -> <<"K", "e", "y", "b", "o", "a", "r", "d", "I", "n", "t", "e", "r", "r", "u", "p", "t">>

DivOpen == <<"<", "d", "i", "v", " ", "c", "l", "a", "s", "s", "=", "'", "e", "r", "r", "o", "r", "'", ">">>
DivClose == <<"<", "/", "d", "i", "v", ">">>

\* type(e).__name__ + ': ' + str(e)
error_text(exc) == type_name(exc.kind) \o <<":", " ">> \o exc.msg

\* f"<div class='error'>{html.escape(type(e).__name__ + ': ' + str(e))}</div>"
error_element(exc) == PyStr(DivOpen \o html_escape(error_text(exc)) \o DivClose)

----------------------------------------------------------------------------
(* The shared status object *)

JobNames == {"", "train"}

\* job_no: no step done, one step done
JobNos == {0, 1}

\* job_count: -1 and 1 are counts of a running job, 0 is the idle value
JobCounts == {-1, 0, 1}

StatusVals ==
    [job : JobNames, job_no : JobNos, job_count : JobCounts,
     skipped : BOOLEAN, interrupted : BOOLEAN]

\* the status object as the module creates it
StatusInit ==
    [job |-> "", job_no |-> 0, job_count |-> 0,
     skipped |-> FALSE, interrupted |-> FALSE]

\* the idle values of the fields the wrapper resets
Idle(st) == st.job_count = 0 /\ ~st.skipped /\ ~st.interrupted

\* job_count values that mark the status busy
BusyCounts == JobCounts \ {0}

\* status.begin(): marks the status busy
status_begin(st, c) == [st EXCEPT !.job_count = c]

\* status.end(): marks the status idle
status_end(st) == [st EXCEPT !.job_count = 0]

\* what a job does to the status while it runs: nothing, or it assigns
\* the fields (printi, progress reporting, an interrupt request)
JobEdits ==
    {[touch |-> FALSE, val |-> StatusInit]}
        \cup {[touch |-> TRUE, val |-> v] : v \in StatusVals}

job_effect(st, edit) == IF edit.touch THEN edit.val ELSE st

\* a plausible slip: the forced clear also zeroes job_no
clear_on_error_job_no(st) ==
    [st EXCEPT !.job = "", !.job_no = 0, !.job_count = 0]

\* status.job = ""; status.job_count = 0
clear_on_error(st) == [st EXCEPT !.job = "", !.job_count = 0]

\* a plausible slip: the interrupted flag is not reset
reset_status_keeps_interrupted(st) ==
    [st EXCEPT !.skipped = FALSE, !.job_count = 0]

\* status.skipped = False; status.interrupted = False; status.job_count = 0
reset_status(st) ==
    [st EXCEPT !.skipped = FALSE, !.interrupted = FALSE, !.job_count = 0]

----------------------------------------------------------------------------
(* The argument dump written to sys.stderr *)

max_debug_str_len == 131072

\* len(f"Arguments: {str(args)} {str(kwargs)}")
arg_str_len(a, k) == 11 + a + 1 + k

\* lengths of str(args): the empty tuple, and dumps around the cap
ArgsReprLens ==
    {2}
        \cup ((max_debug_str_len - 15) .. (max_debug_str_len - 14 + MaxOver))

\* lengths of str(kwargs): "{}"
KwargsReprLens == {2}

\* len(arg_str[:n])
slice_len(L, n) == IF L < n THEN L ELSE n

\* a plausible slip: >= in place of >
truncated_ge(L) == L >= max_debug_str_len

\* len(arg_str) > max_debug_str_len
truncated(L) == L > max_debug_str_len

Line(what, len, limit, total) ==
    [what |-> what, len |-> len, limit |-> limit, total |-> total]

\* the print calls of the except block, in order
error_log(L) ==
    <<Line("Error completing request", 24, 0, 0),
      Line("arg_str", slice_len(L, max_debug_str_len), 0, L)>>
    \o (IF truncated(L)
        THEN <<Line("truncated", 0, max_debug_str_len, L)>>
        ELSE <<>>)
    \o <<Line("traceback", 0, 0, 0)>>

----------------------------------------------------------------------------
(* Templates and results *)

\* None, '', None, '', ...
TemplateElem(i) == IF i % 2 = 1 THEN PyNone ELSE PyStr(<<>>)

ListOfLen(n) == PyList([i \in 1..n |-> TemplateElem(i)])

\* what a caller passes as extra_outputs: nothing, a list, or a tuple
WrapTemplates ==
    {PyNone} \cup {ListOfLen(n) : n \in 0..MaxTemplateLen}
        \cup {PyTuple(<<PyNone, PyStr(<<>>)>>)}

\* what a call passes as extra_outputs_array
CallTemplates == {PyList(<<PyStr(<<"a">>)>>)}

\* [None, '']
default_extra_outputs == PyList(<<PyNone, PyStr(<<>>)>>)

\* what a job returns
RetVals ==
    {PyNone,
     PyTuple(<<PyStr(<<"o", "k">>), PyInt(42)>>),
     PyList(<<PyNone, PyStr(<<>>), PyStr(<<"a">>)>>)}

\* list + list is defined and makes a new list; tuple + list raises TypeError
can_concat(a) == a.t = "list"

\* a plausible slip: the error element replaces the template
list_add_right_only(a, b) == PyList(b)

\* a + b for two lists
list_add(a, b) == PyList(a.e \o b)

\* a plausible slip: extra_outputs_array.append(...) / += extends in place
left_operand_extended(a, b) == PyList(a.e \o b)

\* the left operand of a + b after the addition: untouched
left_operand_after(a, b) == a

\* res = func(*args, **kwargs)
success_res(r) == r

\* a plausible slip: the job is run again when it raises
handler_pc_retry(kind) == "job"

\* except Exception as e: an Exception enters the block, anything else
\* propagates to the caller
handler_pc(kind) == IF IsException(kind) THEN "log" ELSE "raised"

----------------------------------------------------------------------------
(* The state machine *)

\* no ordered pair of calls under way
NoPair == [c1 |-> 0, c2 |-> 0, s |-> [touch |-> FALSE, val |-> StatusInit],
           f |-> [touch |-> FALSE, val |-> StatusInit]]

\* the job of the current invocation returned normally
JobReturned == job_res # NoVal

\* how the previous invocation ended, kept by prev
Outcome ==
    IF pc = "returned" THEN (IF e = NoExc THEN "ok" ELSE "failed")
    ELSE IF pc = "raised" THEN "raised" ELSE "none"

TypeInvariant ==
    /\ status \in StatusVals
    /\ pc \in {"idle", "begin", "job", "end", "log", "clear", "build",
               "reset", "returned", "raised"}
    /\ eoa_ref \in {"wrap", "call", "local"}
    /\ prev \in {"none", "ok", "failed", "raised"}
    /\ extra_outputs \in WrapTemplates

\* wrap_gpu_call(func, extra_outputs): f is built, nothing has run
Init ==
    /\ extra_outputs \in WrapTemplates
    /\ extra_outputs0 = extra_outputs
    /\ status = StatusInit
    /\ pc = "idle"
    /\ args_len = 2
    /\ kwargs_len = 2
    /\ extra_outputs_array = extra_outputs
    /\ eoa_ref = "wrap"
    /\ job_res = NoVal
    /\ e = NoExc
    /\ res = NoVal
    /\ stderr = <<>>
    /\ events = <<>>
    /\ prev = "none"
    /\ twin = StatusInit
    /\ pending = NoPair

\* f(*args, extra_outputs_array=extra_outputs, **kwargs) is entered:
\* the keyword defaults to the object given at wrap time
Call ==
    /\ pc \in {"idle", "returned", "raised"}
    /\ \E a \in ArgsReprLens, k \in KwargsReprLens :
          /\ args_len' = a
          /\ kwargs_len' = k
    /\ \/ /\ extra_outputs_array' = extra_outputs
          /\ eoa_ref' = "wrap"
       \/ /\ extra_outputs_array' \in CallTemplates
          /\ eoa_ref' = "call"
    /\ prev' = Outcome
    /\ pc' = "begin"
    /\ job_res' = NoVal
    /\ e' = NoExc
    /\ res' = NoVal
    /\ stderr' = <<>>
    /\ events' = <<>>
    /\ UNCHANGED <<extra_outputs, extra_outputs0, status,
                   twin, pending>>

\* status.begin() returns
Begin ==
    /\ pc = "begin"
    /\ \E c \in BusyCounts : status' = status_begin(status, c)
    /\ events' = Append(events, "begin")
    /\ pc' = "job"
    /\ UNCHANGED <<extra_outputs, extra_outputs0, args_len, kwargs_len,
                   extra_outputs_array, eoa_ref, job_res, e, res, stderr, prev,
                   twin, pending>>

\* status.begin() raises
BeginRaises ==
    /\ pc = "begin"
    /\ \E kind \in ExcKinds, msg \in {<<>>} :
          /\ e' = [kind |-> kind, msg |-> msg]
          /\ pc' = handler_pc(kind)
    /\ events' = Append(events, "begin")
    /\ UNCHANGED <<extra_outputs, extra_outputs0, status, args_len, kwargs_len,
                   extra_outputs_array, eoa_ref, job_res, res, stderr, prev,
                   twin, pending>>

\* res = func(*args, **kwargs) returns
JobReturns ==
    /\ pc = "job"
    /\ \E edit \in JobEdits : status' = job_effect(status, edit)
    /\ \E r \in RetVals :
          /\ job_res' = r
          /\ res' = success_res(r)
    /\ events' = Append(events, "job")
    /\ pc' = "end"
    /\ UNCHANGED <<extra_outputs, extra_outputs0, args_len, kwargs_len,
                   extra_outputs_array, eoa_ref, e, stderr, prev,
                   twin, pending>>

\* func(*args, **kwargs) raises
JobRaises ==
    /\ pc = "job"
    /\ \E edit \in JobEdits : status' = job_effect(status, edit)
    /\ \E kind \in ExcKinds, msg \in Messages :
          /\ e' = [kind |-> kind, msg |-> msg]
          /\ pc' = handler_pc(kind)
    /\ events' = Append(events, "job")
    /\ UNCHANGED <<extra_outputs, extra_outputs0, args_len, kwargs_len,
                   extra_outputs_array, eoa_ref, job_res, res, stderr, prev,
                   twin, pending>>

\* status.end()
End ==
    /\ pc = "end"
    /\ status' = status_end(status)
    /\ events' = Append(events, "end")
    /\ pc' = "reset"
    /\ UNCHANGED <<extra_outputs, extra_outputs0, args_len, kwargs_len,
                   extra_outputs_array, eoa_ref, job_res, e, res, stderr, prev,
                   twin, pending>>

\* status.end() raises: the job has returned, and the exception is handled
\* like one of the job
EndRaises ==
    /\ pc = "end"
    /\ \E kind \in ExcKinds, msg \in {<<>>} :
          /\ e' = [kind |-> kind, msg |-> msg]
          /\ pc' = handler_pc(kind)
    /\ events' = Append(events, "end")
    /\ UNCHANGED <<extra_outputs, extra_outputs0, status, args_len, kwargs_len,
                   extra_outputs_array, eoa_ref, job_res, res, stderr, prev,
                   twin, pending>>

\* except block, the prints: header, argument dump, note, traceback
Log ==
    /\ pc = "log"
    /\ stderr' = stderr \o error_log(arg_str_len(args_len, kwargs_len))
    /\ pc' = "clear"
    /\ UNCHANGED <<extra_outputs, extra_outputs0, status, args_len, kwargs_len,
                   extra_outputs_array, eoa_ref, job_res, e, res, events, prev,
                   twin, pending>>

\* except block: status.job = ""; status.job_count = 0
Clear ==
    /\ pc = "clear"
    /\ status' = clear_on_error(status)
    /\ pc' = "build"
    /\ UNCHANGED <<extra_outputs, extra_outputs0, args_len, kwargs_len,
                   extra_outputs_array, eoa_ref, job_res, e, res, stderr,
                   events, prev,
                   twin, pending>>

\* except block: the template defaults to [None, ''] and the failure
\* result is template + [error element]
Build ==
    /\ pc = "build"
    /\ LET isnone == extra_outputs_array = PyNone
           tmpl == IF isnone THEN default_extra_outputs ELSE extra_outputs_array
           ref == IF isnone THEN "local" ELSE eoa_ref
           item == <<error_element(e)>>
       IN  /\ can_concat(tmpl)
           /\ res' = list_add(tmpl, item)
           /\ extra_outputs_array' = left_operand_after(tmpl, item)
           /\ eoa_ref' = ref
           /\ extra_outputs' =
                 IF ref = "wrap" THEN left_operand_after(extra_outputs, item)
                 ELSE extra_outputs
    /\ events' = Append(events, "built")
    /\ pc' = "reset"
    /\ UNCHANGED <<extra_outputs0, status, args_len, kwargs_len, job_res, e,
                   stderr, prev,
                   twin, pending>>

\* except block: the template is no list, so the + raises TypeError
\* inside the handler and the exception leaves f
BuildRaises ==
    /\ pc = "build"
    /\ extra_outputs_array # PyNone
    /\ ~can_concat(extra_outputs_array)
    /\ e' = [kind |-> "TypeError", msg |-> <<>>]
    /\ pc' = "raised"
    /\ UNCHANGED <<extra_outputs, extra_outputs0, status, args_len, kwargs_len,
                   extra_outputs_array, eoa_ref, job_res, res, stderr, events,
                   prev,
                   twin, pending>>

\* both paths: the three resets, then return res
Reset ==
    /\ pc = "reset"
    /\ status' = reset_status(status)
    /\ events' = Append(events, "reset")
    /\ pc' = "returned"
    /\ UNCHANGED <<extra_outputs, extra_outputs0, args_len, kwargs_len,
                   extra_outputs_array, eoa_ref, job_res, e, res, stderr, prev,
                   twin, pending>>

Next ==
    \/ Call
    \/ Begin
    \/ BeginRaises
    \/ JobReturns
    \/ JobRaises
    \/ End
    \/ EndRaises
    \/ Log
    \/ Clear
    \/ Build
    \/ BuildRaises
    \/ Reset

Spec == Init /\ [][Next]_vars

----------------------------------------------------------------------------
(* Whole invocations, for comparing two orders of the same two calls *)

\* an invocation whose job returns: begin, job, end, reset
call_ok(st, c, edit) ==
    reset_status(status_end(job_effect(status_begin(st, c), edit)))

\* an invocation whose job raises an Exception and whose template is a
\* list: begin, job, forced clear, reset
call_failed(st, c, edit) ==
    reset_status(clear_on_error(job_effect(status_begin(st, c), edit)))

InitOrder ==
    /\ status \in StatusVals
    /\ twin = status
    /\ pending = NoPair
    /\ pc = "idle"
    /\ extra_outputs = PyNone
    /\ extra_outputs0 = PyNone
    /\ args_len = 2
    /\ kwargs_len = 2
    /\ extra_outputs_array = PyNone
    /\ eoa_ref = "wrap"
    /\ job_res = NoVal
    /\ e = NoExc
    /\ res = NoVal
    /\ stderr = <<>>
    /\ events = <<>>
    /\ prev = "none"

\* first call of the pair: status sees the succeeding call s, twin the
\* failing call f
OrderFirst ==
    /\ pc = "idle"
    /\ \E c1 \in BusyCounts, c2 \in BusyCounts, s \in JobEdits, f \in JobEdits :
          /\ pending' = [c1 |-> c1, c2 |-> c2, s |-> s, f |-> f]
          /\ status' = call_ok(status, c1, s)
          /\ twin' = call_failed(twin, c2, f)
    /\ pc' = "begin"
    /\ prev' = "ok"
    /\ UNCHANGED <<extra_outputs, extra_outputs0, args_len, kwargs_len,
                   extra_outputs_array, eoa_ref, job_res, e, res, stderr,
                   events>>

\* second call of the pair: status sees f, twin sees s
OrderSecond ==
    /\ pc = "begin"
    /\ prev = "ok"
    /\ pending # NoPair
    /\ status' = call_failed(status, pending.c2, pending.f)
    /\ twin' = call_ok(twin, pending.c1, pending.s)
    /\ pc' = "returned"
    /\ UNCHANGED <<extra_outputs, extra_outputs0, args_len, kwargs_len,
                   extra_outputs_array, eoa_ref, job_res, e, res, stderr,
                   events, prev, pending>>

NextOrder ==
    \/ OrderFirst
    \/ OrderSecond

SpecOrder == InitOrder /\ [][NextOrder]_vars

----------------------------------------------------------------------------
(* Claims *)

Returned == pc = "returned"
\* the call returned with no exception caught / with a failure result
Succeeded == Returned /\ e = NoExc
Failed == Returned /\ e # NoExc

\* the template of the current invocation as the caller supplied it,
\* [None, ''] when none was supplied
Template ==
    IF eoa_ref = "local" THEN PyList(<<PyNone, PyStr(<<>>)>>)
    ELSE IF eoa_ref = "wrap" THEN extra_outputs0
    ELSE extra_outputs_array

\* C1: no invocation of the wrapped function ends with an exception
\* propagating to the caller.
C1_NeverRaises == pc # "raised"

\* C2: when the job returned normally and the wrapped call has returned,
\* the result is the job's own return value and skipped, interrupted and
\* job_count are false, false and 0.
C2_SuccessResult ==
    (Returned /\ JobReturned) =>
        /\ res = job_res
        /\ status.skipped = FALSE
        /\ status.interrupted = FALSE
        /\ status.job_count = 0

Entities ==
    {<<"&", "a", "m", "p", ";">>, <<"&", "l", "t", ";">>, <<"&", "g", "t", ";">>,
     <<"&", "q", "u", "o", "t", ";">>, <<"&", "#", "x", "2", "7", ";">>}

StartsWith(str, p) == Len(str) >= Len(p) /\ SubSeq(str, 1, Len(p)) = p

\* every "&" of str opens one of the five entities
AmpOpensEntity(str) ==
    \A i \in 1..Len(str) :
        str[i] = "&" =>
            \E ent \in Entities : StartsWith(SubSeq(str, i, Len(str)), ent)

EntityChar(ent) ==
    CASE ent = <<"&", "a", "m", "p", ";">> -> "&"
      [] ent = <<"&", "l", "t", ";">> -> "<"
      [] ent = <<"&", "g", "t", ";">> -> ">"
      [] ent = <<"&", "q", "u", "o", "t", ";">> -> "\""
      [] ent = <<"&", "#", "x", "2", "7", ";">> -> "'"

\* what a browser shows for str: each entity read back as its character
RECURSIVE Rendered(_)
Rendered(str) ==
    IF str = <<>> THEN <<>>
    ELSE IF \E ent \in Entities : StartsWith(str, ent)
         THEN LET ent == CHOOSE x \in Entities : StartsWith(str, x)
              IN  <<EntityChar(ent)>> \o Rendered(SubSeq(str, Len(ent) + 1, Len(str)))
         ELSE <<Head(str)>> \o Rendered(Tail(str))

\* C3: when the job raised kind K with message M and the wrapped call has
\* returned, the result is the template followed by exactly one element,
\* the string "<div class='error'>" + html_escape(K + ": " + M) + "</div>";
\* the escaped part holds no "<" or ">", every "&" in it opens an entity,
\* and it renders as K + ": " + M.
C3_FailureResult ==
    Failed =>
        LET n == Len(Template.e)
            last == res.e[n + 1]
            text == type_name(e.kind) \o <<":", " ">> \o e.msg
            inner == SubSeq(last.s, Len(DivOpen) + 1, Len(last.s) - Len(DivClose))
        IN  /\ res.t = "list"
            /\ Len(res.e) = n + 1
            /\ SubSeq(res.e, 1, n) = Template.e
            /\ last.t = "str"
            /\ last.s = DivOpen \o html_escape(text) \o DivClose
            /\ \A i \in 1..Len(inner) : inner[i] \notin {"<", ">"}
            /\ AmpOpensEntity(inner)
            /\ Rendered(inner) = text

C3_Witness ==
    /\ Failed
    /\ e = [kind |-> "ValueError", msg |-> <<"<">>]
    /\ eoa_ref = "local"
    /\ res.e[3].s = DivOpen
                    \o <<"V", "a", "l", "u", "e", "E", "r", "r", "o", "r", ":", " ">>
                    \o <<"&", "l", "t", ";">> \o DivClose

\* C4 as stated: whatever the outcome, the result has len(template) + 1
\* elements.
C4_SameShape == Returned => Len(res.e) = Len(Template.e) + 1

\* C4 amended: the result of a call whose job raised is a list of
\* len(template) + 1 elements (3 when no template was supplied).
C4_FailureShape ==
    Failed =>
        /\ res.t = "list"
        /\ Len(res.e) = Len(Template.e) + 1
        /\ (eoa_ref = "local" => Len(res.e) = 3)

C4_Witness ==
    /\ Failed
    /\ eoa_ref = "call"
    /\ Len(res.e) = 2

\* C5: whenever a wrapped call has returned, after a success or after a
\* failure, the status is back to its idle values: the busy mark of
\* begin() is cleared.
C5_NotStuck == Returned => Idle(status)

C5_Witness ==
    /\ Failed
    /\ prev = "ok"
    /\ Idle(status)
    /\ status.job_no = 1

\* C6 as stated: a succeeding call then a failing one, and the same two
\* calls in the other order, leave the whole status the same.
C6_OrderIndependent == Returned => status = twin

\* C6 amended: the two orders leave job_count, skipped and interrupted at
\* the same idle values 0, false, false.
C6_IdleFieldsAgree ==
    Returned =>
        /\ Idle(status)
        /\ Idle(twin)
        /\ status.job_count = twin.job_count
        /\ status.skipped = twin.skipped
        /\ status.interrupted = twin.interrupted

C6_Witness ==
    /\ Returned
    /\ pending.s.touch
    /\ pending.f.touch
    /\ pending.f.val.interrupted
    /\ status.job = ""
    /\ twin.job = "train"

\* C7: the dump is written as its first min(L, 131072) characters, and the
\* note "(Argument list truncated at 131072/L characters)" follows it if
\* and only if L > 131072.
C7_DumpCap ==
    stderr # <<>> =>
        LET L == 11 + args_len + 1 + kwargs_len
        IN  /\ stderr[2].what = "arg_str"
            /\ stderr[2].total = L
            /\ stderr[2].len = (IF L <= 131072 THEN L ELSE 131072)
            /\ (L > 131072) <=> (\E i \in 1..Len(stderr) : stderr[i].what = "truncated")
            /\ (L > 131072) => stderr[3] = Line("truncated", 0, 131072, L)

C7_Witness ==
    /\ Len(stderr) = 4
    /\ stderr[2].len = 131072
    /\ stderr[3] = Line("truncated", 0, 131072, 131073)

\* C8 as stated: after the forced clear of the failure path, job is empty
\* and job_no is zero.
C8_ClearsJobNo == pc = "build" => (status.job = "" /\ status.job_no = 0)

\* C8 amended: the forced clear happens only with an exception caught; it
\* sets job to empty and job_count to 0 and assigns nothing else, job_no
\* included; the reset both
\* paths share sets skipped, interrupted, job_count to false, false, 0 and
\* assigns neither job nor job_no; the other steps of the except block
\* leave the status alone.
C8_ForcedClear ==
    [][/\ pc = "clear" =>
             /\ e # NoExc
             /\ status' = [status EXCEPT !.job = "", !.job_count = 0]
       /\ pc = "reset" =>
             status' = [status EXCEPT !.skipped = FALSE,
                                      !.interrupted = FALSE,
                                      !.job_count = 0]
       /\ pc \in {"log", "build"} => status' = status]_vars

C8_Witness ==
    /\ Failed
    /\ status.job = ""
    /\ status.job_no = 1
    /\ status.job_count = 0

Count(seq, x) == Cardinality({i \in 1..Len(seq) : seq[i] = x})

Index(seq, x) == CHOOSE i \in 1..Len(seq) : seq[i] = x

\* C9: begin happens once and first, the job runs at most once, end happens
\* once, right after the job, exactly when the job returned, and the reset
\* comes last, right after end or after the failure result is built.
C9_OneAttempt ==
    /\ \A ev \in {"begin", "job", "end", "built", "reset"} : Count(events, ev) <= 1
    /\ events # <<>> => events[1] = "begin"
    /\ pc \notin {"idle", "begin"} => Count(events, "begin") = 1
    /\ Count(events, "end") = 1 =>
          /\ JobReturned
          /\ Index(events, "end") > 1
          /\ events[Index(events, "end") - 1] = "job"
    /\ Count(events, "reset") = 1 =>
          /\ events[Len(events)] = "reset"
          /\ Len(events) > 1
          /\ events[Len(events) - 1] \in {"end", "built"}
    /\ pc \in {"returned", "raised"} =>
          (JobReturned <=> Count(events, "end") = 1)
    /\ Returned => Count(events, "reset") = 1

C9_Witness ==
    /\ Returned
    /\ events = <<"begin", "job", "built", "reset">>

\* C10: the template given to wrap_gpu_call keeps its elements, and a
\* failure result built from it has len(template) + 1 elements however
\* many failures came before.
C10_TemplateKept ==
    /\ extra_outputs = extra_outputs0
    /\ (Failed /\ eoa_ref = "wrap") => Len(res.e) = Len(extra_outputs0.e) + 1

C10_Witness ==
    /\ Failed
    /\ prev = "failed"
    /\ eoa_ref = "wrap"
    /\ extra_outputs = PyList(<<PyNone, PyStr(<<>>)>>)
    /\ Len(res.e) = 3

====
